---- MODULE Spec2Model ----
(***************************************************************************)
(* Model of sendgrid-rs, src/sg_client.rs: the form encoder make_post_body *)
(* (with make_form_key and the url crate's form_urlencoded Serializer) and *)
(* SGClient::new / SGClient::send.                                         *)
(*                                                                         *)
(* A text is a sequence of one-character strings, so that percent-encoding *)
(* is computed character by character and the produced body can be split   *)
(* again at `&` and `=`.                                                   *)
(***************************************************************************)
EXTENDS Naturals, Sequences, FiniteSets

VARIABLES
    mail,       \* the Message the caller is populating (mail::Mail)
    consumed,   \* TRUE once `mail` was moved into make_post_body / send
    last,       \* outcome of the last call made with a Message equal to `mail`
    client      \* the SGClient value: its api_key and whether it was moved

vars == <<mail, consumed, last, client>>

\* Largest number of entries (sequence items, mapping entries, set scalars)
\* of one Message.
MaxOps == 3

-----------------------------------------------------------------------------
(* Texts used as inputs.                                                   *)

V_addr    == <<"a", "@", "b">>
V_brk     == <<"[", "c", " ", "]">>
V_amp     == <<"x", "=", "&", "%">>
K_file    == <<"t", ".", "j">>
K_brk     == <<"[", "k", "]">>
H_x       == <<"X">>
H_y       == <<"Y">>
H_val     == <<"1">>
\* A header value that has no valid text rendering (unpaired surrogate).
Surrogate == "<D800>"
H_bad     == <<Surrogate>>
R_ok      == <<"o", "k">>
R_empty   == << >>

SeqVals    == {V_addr, V_brk}
ScalarVals == {V_amp}
MapKeys    == {K_file, K_brk}
MapVals    == {V_addr, V_brk}
HeaderKeys == {H_x, H_y}
HeaderVals == {H_val, H_bad}
Keys       == {<<"k", "1">>, <<"k", "2">>}
Responses  == {R_ok, R_empty}

API_URL == "https://api.sendgrid.com/api/mail.send.json?"

-----------------------------------------------------------------------------
(* url::form_urlencoded                                                     *)

Lower == {"a","b","c","d","e","f","g","h","i","j","k","l","m",
          "n","o","p","q","r","s","t","u","v","w","x","y","z"}
Upper == {"A","B","C","D","E","F","G","H","I","J","K","L","M",
          "N","O","P","Q","R","S","T","U","V","W","X","Y","Z"}
Digit == {"0","1","2","3","4","5","6","7","8","9"}

\* Bytes byte_serialize copies unchanged.
Unreserved == Lower \cup Upper \cup Digit \cup {"*", "-", ".", "_"}

\* The two upper-case hex digits of the bytes that occur in the inputs.
HexOf(c) ==
    CASE c = "@"  -> <<"4", "0">>
      [] c = "["  -> <<"5", "B">>
      [] c = "]"  -> <<"5", "D">>
      [] c = "{"  -> <<"7", "B">>
      [] c = "}"  -> <<"7", "D">>
      [] c = "\"" -> <<"2", "2">>
      [] c = "\\" -> <<"5", "C">>
      [] c = ":"  -> <<"3", "A">>
      [] c = ","  -> <<"2", "C">>
      [] c = "&"  -> <<"2", "6">>
      [] c = "="  -> <<"3", "D">>
      [] c = "%"  -> <<"2", "5">>
      [] c = "+"  -> <<"2", "B">>

byte_serialize_one(c) ==
    IF c = " " THEN <<"+">>
    ELSE IF c \in Unreserved THEN <<c>>
    ELSE <<"%">> \o HexOf(c)

RECURSIVE byte_serialize(_)
byte_serialize(s) ==
    IF s = << >> THEN << >>
    ELSE byte_serialize_one(Head(s)) \o byte_serialize(Tail(s))

\* Serializer::append_pair on a serializer whose target started empty.
append_pair(encoder, name, value) ==
    (IF Len(encoder) > 0 THEN encoder \o <<"&">> ELSE encoder)
        \o byte_serialize(name) \o <<"=">> \o byte_serialize(value)

-----------------------------------------------------------------------------
(* mail::Mail                                                               *)

EmptyMap == [k \in {} |-> << >>]

Insert(m, k, v) == [x \in (DOMAIN m) \cup {k} |-> IF x = k THEN v ELSE m[x]]

Mail_new ==
    [to |-> << >>, to_names |-> << >>, cc |-> << >>, bcc |-> << >>,
     attachments |-> EmptyMap, content |-> EmptyMap,
     from |-> << >>, subject |-> << >>, html |-> << >>, text |-> << >>,
     from_name |-> << >>, reply_to |-> << >>, date |-> << >>,
     headers |-> EmptyMap, x_smtpapi |-> << >>]

ScalarFields ==
    {"from", "subject", "html", "text", "from_name", "reply_to", "date",
     "x_smtpapi"}

Size(m) ==
    Len(m.to) + Len(m.to_names) + Len(m.cc) + Len(m.bcc)
    + Cardinality(DOMAIN m.attachments) + Cardinality(DOMAIN m.content)
    + Cardinality(DOMAIN m.headers)
    + Cardinality({f \in ScalarFields : m[f] # << >>})

\* The iteration orders a mapping can present: every arrangement of its keys.
Orders(m) ==
    {o \in [1..Cardinality(DOMAIN m) -> DOMAIN m] :
        \A i, j \in DOMAIN o : i # j => o[i] # o[j]}

\* serde_json's rendering of one text as a JSON string.
RECURSIVE json_escape(_)
json_escape(s) ==
    IF s = << >> THEN << >>
    ELSE (IF Head(s) \in {"\"", "\\"} THEN <<"\\", Head(s)>> ELSE <<Head(s)>>)
             \o json_escape(Tail(s))

json_string(s) == <<"\"">> \o json_escape(s) \o <<"\"">>

RECURSIVE json_entries(_, _)
json_entries(h, order) ==
    IF order = << >> THEN << >>
    ELSE json_string(Head(order)) \o <<":">> \o json_string(h[Head(order)])
             \o (IF Len(order) > 1 THEN <<",">> ELSE << >>)
             \o json_entries(h, Tail(order))

\* Whether a header value has a text rendering.
Representable(s) == \A i \in DOMAIN s : s[i] # Surrogate

\* Mail::make_header_string: the JSON object text of the header mapping,
\* entries in the mapping's iteration order; `{}` when it is empty.
make_header_string(m, order) ==
    IF \A k \in DOMAIN m.headers : Representable(m.headers[k])
    THEN [ok |-> TRUE,
          value |-> <<"{">> \o json_entries(m.headers, order) \o <<"}">>]
    ELSE [ok |-> FALSE, value |-> << >>]

-----------------------------------------------------------------------------
(* src/sg_client.rs                                                         *)

\* Bug variant: the closing bracket is not pushed.
Mut_make_form_key_unclosed(form, key) == form \o <<"[">> \o key

make_form_key(form, key) == form \o <<"[">> \o key \o <<"]">>

F_to        == <<"t", "o", "[", "]">>
F_toname    == <<"t", "o", "n", "a", "m", "e", "[", "]">>
F_cc        == <<"c", "c", "[", "]">>
F_bcc       == <<"b", "c", "c", "[", "]">>
F_files     == <<"f", "i", "l", "e", "s">>
F_content   == <<"c", "o", "n", "t", "e", "n", "t">>
F_from      == <<"f", "r", "o", "m">>
F_subject   == <<"s", "u", "b", "j", "e", "c", "t">>
F_html      == <<"h", "t", "m", "l">>
F_text      == <<"t", "e", "x", "t">>
F_fromname  == <<"f", "r", "o", "m", "n", "a", "m", "e">>
F_replyto   == <<"r", "e", "p", "l", "y", "t", "o">>
F_date      == <<"d", "a", "t", "e">>
F_headers   == <<"h", "e", "a", "d", "e", "r", "s">>
F_xsmtpapi  == <<"x", "-", "s", "m", "t", "p", "a", "p", "i">>

\* Bug variant: the sequence is walked from its end.
RECURSIVE Mut_append_each_reversed(_, _, _)
Mut_append_each_reversed(encoder, name, seq) ==
    IF seq = << >> THEN encoder
    ELSE Mut_append_each_reversed(
             append_pair(encoder, name, seq[Len(seq)]), name,
             SubSeq(seq, 1, Len(seq) - 1))

\* for item in seq.iter() { encoder.append_pair(name, &item); }
RECURSIVE append_each(_, _, _)
append_each(encoder, name, seq) ==
    IF seq = << >> THEN encoder
    ELSE append_each(append_pair(encoder, name, Head(seq)), name, Tail(seq))

\* Bug variant: every key is paired with the value of the entry visited last.
RECURSIVE Mut_append_entries_shifted(_, _, _, _)
Mut_append_entries_shifted(encoder, form, map, order) ==
    IF order = << >> THEN encoder
    ELSE Mut_append_entries_shifted(
             append_pair(encoder, make_form_key(form, Head(order)),
                         map[order[Len(order)]]),
             form, map, Tail(order))

\* for (k, v) in &map { encoder.append_pair(&make_form_key(form, k), v); }
\* with the mapping presenting its entries in `order`.
RECURSIVE append_entries(_, _, _, _)
append_entries(encoder, form, map, order) ==
    IF order = << >> THEN encoder
    ELSE append_entries(
             append_pair(encoder, make_form_key(form, Head(order)), map[Head(order)]),
             form, map, Tail(order))

\* Bug variant: an empty sequence still emits its key, with an empty value.
Mut_append_each_or_empty(encoder, name, seq) ==
    IF seq = << >> THEN append_pair(encoder, name, << >>)
    ELSE append_each(encoder, name, seq)

Mut_emit_sequences_keyed(encoder, m) ==
    Mut_append_each_or_empty(
        Mut_append_each_or_empty(
            Mut_append_each_or_empty(
                Mut_append_each_or_empty(encoder, F_to, m.to),
                F_toname, m.to_names),
            F_cc, m.cc),
        F_bcc, m.bcc)

\* make_post_body, lines 36-50: the four recipient sequences.
emit_sequences(encoder, m) ==
    append_each(
        append_each(
            append_each(
                append_each(encoder, F_to, m.to),
                F_toname, m.to_names),
            F_cc, m.cc),
        F_bcc, m.bcc)

\* make_post_body, lines 52-58: attachments, then content.
emit_mappings(encoder, m, ao, co) ==
    append_entries(
        append_entries(encoder, F_files, m.attachments, ao),
        F_content, m.content, co)

\* Bug variant: `text` is emitted before `html`.
Mut_emit_scalars_swapped(encoder, m) ==
    append_pair(
     append_pair(
      append_pair(
       append_pair(
        append_pair(
         append_pair(
          append_pair(encoder, F_from, m.from),
          F_subject, m.subject),
         F_text, m.text),
        F_html, m.html),
       F_fromname, m.from_name),
      F_replyto, m.reply_to),
     F_date, m.date)

\* Bug variant: a scalar is emitted only when it is set.
Mut_append_if_set(encoder, name, value) ==
    IF value = << >> THEN encoder ELSE append_pair(encoder, name, value)

Mut_emit_scalars_skip_empty(encoder, m) ==
    Mut_append_if_set(
     Mut_append_if_set(
      Mut_append_if_set(
       Mut_append_if_set(
        Mut_append_if_set(
         Mut_append_if_set(
          Mut_append_if_set(encoder, F_from, m.from),
          F_subject, m.subject),
         F_html, m.html),
        F_text, m.text),
       F_fromname, m.from_name),
      F_replyto, m.reply_to),
     F_date, m.date)

\* make_post_body, lines 60-66: the seven plain scalars.
emit_scalars(encoder, m) ==
    append_pair(
     append_pair(
      append_pair(
       append_pair(
        append_pair(
         append_pair(
          append_pair(encoder, F_from, m.from),
          F_subject, m.subject),
         F_html, m.html),
        F_text, m.text),
       F_fromname, m.from_name),
      F_replyto, m.reply_to),
     F_date, m.date)

\* Bug variant: a failed header serialization is replaced by the empty text
\* instead of being returned.
Mut_emit_tail_ignore_error(encoder, hs, m) ==
    [ok |-> TRUE,
     value |-> append_pair(append_pair(encoder, F_headers, hs.value),
                           F_xsmtpapi, m.x_smtpapi),
     err |-> "none", encoder |-> << >>]

\* make_post_body, lines 67-70: `headers` (the `?` returns the error and
\* drops the encoder), `x-smtpapi`, finish.  `encoder` in the result is what
\* the serializer still held when the function returned: finish() hands its
\* target over, an early return leaves the pairs appended so far in it.
emit_tail(encoder, hs, m) ==
    IF hs.ok
    THEN [ok |-> TRUE,
          value |-> append_pair(append_pair(encoder, F_headers, hs.value),
                                F_xsmtpapi, m.x_smtpapi),
          err |-> "none", encoder |-> << >>]
    ELSE [ok |-> FALSE, value |-> << >>, err |-> "EncodingError",
          encoder |-> encoder]

\* ao, co, ho: the iteration orders of attachments, content and headers.
make_post_body(m, ao, co, ho) ==
    emit_tail(
        emit_scalars(emit_mappings(emit_sequences(<< >>, m), m, ao, co), m),
        make_header_string(m, ho), m)

Request(key, body) ==
    [method |-> "POST", url |-> API_URL,
     authorization |-> <<"Bearer", key>>,
     content_type |-> "application/x-www-form-urlencoded",
     user_agent |-> "sendgrid-rs",
     body |-> body]

NetOutcomes == {"ok", "send_fails", "read_fails"}

\* Bug variant: a failed request is issued a second time.
Mut_send_retry(key, post, net, resp) ==
    IF ~post.ok
    THEN [ok |-> FALSE, value |-> << >>, err |-> post.err, wire |-> << >>]
    ELSE IF net = "ok"
    THEN [ok |-> TRUE, value |-> resp, err |-> "none",
          wire |-> <<Request(key, post.value)>>]
    ELSE [ok |-> FALSE, value |-> << >>, err |-> "TransportError",
          wire |-> <<Request(key, post.value), Request(key, post.value)>>]

\* SGClient::send.  net: what the transport does with the request (the POST
\* fails, reading the response body fails, or both succeed); resp: the
\* response text it delivers.  `wire` lists the requests issued.
send(key, post, net, resp) ==
    IF ~post.ok
    THEN [ok |-> FALSE, value |-> << >>, err |-> post.err, wire |-> << >>]
    ELSE IF net = "ok"
    THEN [ok |-> TRUE, value |-> resp, err |-> "none",
          wire |-> <<Request(key, post.value)>>]
    ELSE [ok |-> FALSE, value |-> << >>, err |-> "TransportError",
          wire |-> <<Request(key, post.value)>>]

-----------------------------------------------------------------------------
(* State machine                                                            *)

NoCall ==
    [call |-> "none", ok |-> FALSE, value |-> << >>, err |-> "none",
     encoder |-> << >>, wire |-> << >>, net |-> "none", delivered |-> << >>]

NoClient == [state |-> "none", api_key |-> << >>]

Init ==
    /\ mail = Mail_new
    /\ consumed = FALSE
    /\ last = NoCall
    /\ client = NoClient

\* `last` also keeps what the environment did during the call: net, the
\* transport's behaviour, and delivered, the response text it handed over.

\* One additive operation of the Message: the caller still owns it.
Populate(m) ==
    /\ ~consumed
    /\ Size(m) <= MaxOps
    /\ mail' = m
    /\ last' = NoCall
    /\ UNCHANGED <<consumed, client>>

add_to         == \E v \in SeqVals : Populate([mail EXCEPT !.to = Append(@, v)])
add_to_name    == \E v \in SeqVals : Populate([mail EXCEPT !.to_names = Append(@, v)])
add_cc         == \E v \in SeqVals : Populate([mail EXCEPT !.cc = Append(@, v)])
add_bcc        == \E v \in SeqVals : Populate([mail EXCEPT !.bcc = Append(@, v)])
add_from       == \E v \in ScalarVals : Populate([mail EXCEPT !.from = v])
add_subject    == \E v \in ScalarVals : Populate([mail EXCEPT !.subject = v])
add_html       == \E v \in ScalarVals : Populate([mail EXCEPT !.html = v])
add_text       == \E v \in ScalarVals : Populate([mail EXCEPT !.text = v])
add_from_name  == \E v \in ScalarVals : Populate([mail EXCEPT !.from_name = v])
add_reply_to   == \E v \in ScalarVals : Populate([mail EXCEPT !.reply_to = v])
add_date       == \E v \in ScalarVals : Populate([mail EXCEPT !.date = v])
add_x_smtpapi  == \E v \in ScalarVals : Populate([mail EXCEPT !.x_smtpapi = v])
add_attachment ==
    \E k \in MapKeys, v \in MapVals :
        Populate([mail EXCEPT !.attachments = Insert(@, k, v)])
add_content ==
    \E k \in MapKeys, v \in MapVals :
        Populate([mail EXCEPT !.content = Insert(@, k, v)])
add_header ==
    \E k \in HeaderKeys, v \in HeaderVals :
        Populate([mail EXCEPT !.headers = Insert(@, k, v)])

\* Mail::new(): the caller starts a fresh Message.
MailNew ==
    /\ consumed \/ mail # Mail_new
    /\ mail' = Mail_new
    /\ consumed' = FALSE
    /\ last' = NoCall
    /\ UNCHANGED client

\* The caller builds a Message with the same contents as the one it gave
\* away (the same additive operations again).
Rebuild ==
    /\ consumed
    /\ consumed' = FALSE
    /\ UNCHANGED <<mail, last, client>>

\* A direct call make_post_body(mail), as in basic_message_body.
Encode ==
    /\ ~consumed
    /\ \E ao \in Orders(mail.attachments), co \in Orders(mail.content),
          ho \in Orders(mail.headers) :
          LET r == make_post_body(mail, ao, co, ho)
          IN  last' = [call |-> "make_post_body", ok |-> r.ok, value |-> r.value,
                       err |-> r.err, encoder |-> r.encoder, wire |-> << >>,
                       net |-> "none", delivered |-> << >>]
    /\ consumed' = TRUE
    /\ UNCHANGED <<mail, client>>

\* SGClient::new(key)
SGClient_new ==
    /\ \E key \in Keys : client' = [state |-> "live", api_key |-> key]
    /\ UNCHANGED <<mail, consumed, last>>

\* client.send(mail): `self` and `mail_info` are both taken by value.
Send ==
    /\ ~consumed
    /\ client.state = "live"
    /\ \E ao \in Orders(mail.attachments), co \in Orders(mail.content),
          ho \in Orders(mail.headers) :
          LET post == make_post_body(mail, ao, co, ho)
          IN  \E net \in NetOutcomes, resp \in Responses :
                LET r == send(client.api_key, post, net, resp)
                IN  last' = [call |-> "send", ok |-> r.ok, value |-> r.value,
                             err |-> r.err, encoder |-> post.encoder,
                             wire |-> r.wire,
                             net |-> IF post.ok THEN net ELSE "none",
                             delivered |->
                                 IF post.ok /\ net = "ok" THEN resp ELSE << >>]
    /\ consumed' = TRUE
    /\ client' = [client EXCEPT !.state = "moved"]
    /\ UNCHANGED mail

Next ==
    \/ add_to \/ add_to_name \/ add_cc \/ add_bcc
    \/ add_from \/ add_subject \/ add_html \/ add_text
    \/ add_from_name \/ add_reply_to \/ add_date \/ add_x_smtpapi
    \/ add_attachment \/ add_content \/ add_header
    \/ MailNew \/ Rebuild \/ Encode

Spec == Init /\ [][Next]_vars

\* The caller of SGClient::send: messages populated with recipients, sender,
\* subject, text, attachments and headers.
NextSend ==
    \/ add_to \/ add_from \/ add_subject \/ add_text
    \/ add_attachment \/ add_header
    \/ MailNew \/ SGClient_new \/ Send

SpecSend == Init /\ [][NextSend]_vars

-----------------------------------------------------------------------------
(* Reading a produced body back: split at `&`, then at `=`.                 *)

\* The segments of s between the occurrences of sep.
Split(s, sep) ==
    LET P == {i \in DOMAIN s : s[i] = sep}
    IN  [n \in 1..(Cardinality(P) + 1) |->
            LET a == CHOOSE x \in P \cup {0} :
                         Cardinality({i \in P : i <= x}) = n - 1
                b == CHOOSE x \in P \cup {Len(s) + 1} :
                         Cardinality({i \in P : i < x}) = n - 1
            IN  SubSeq(s, a + 1, b - 1)]

\* The pairs of a body, in order; a segment without exactly one `=` gives a
\* pair with the key "?" that matches no form key.
Pairs(body) ==
    LET segs == Split(body, "&")
    IN  [i \in 1..Len(segs) |->
            LET kv == Split(segs[i], "=")
            IN  IF Len(kv) = 2 THEN [key |-> kv[1], value |-> kv[2]]
                ELSE [key |-> <<"?">>, value |-> << >>]]

E(s) == byte_serialize(s)

PctOpen  == <<"%", "5", "B">>
PctClose == <<"%", "5", "D">>

IsPrefix(p, s) == Len(p) <= Len(s) /\ SubSeq(s, 1, Len(p)) = p
IsSuffix(p, s) == Len(p) <= Len(s) /\ SubSeq(s, Len(s) - Len(p) + 1, Len(s)) = p

\* The wire form of the key built from form name f and identifier k.
WireKey(f, k) == E(f) \o PctOpen \o E(k) \o PctClose

FilesOpen   == E(F_files) \o PctOpen
ContentOpen == E(F_content) \o PctOpen

IsBracketKey(open, key) == IsPrefix(open, key) /\ IsSuffix(PctClose, key)

\* The emission group of a wire key, 0 when it belongs to none.
Group(key) ==
    CASE key = <<"t","o">> \o PctOpen \o PctClose -> 1
      [] key = <<"t","o","n","a","m","e">> \o PctOpen \o PctClose -> 2
      [] key = <<"c","c">> \o PctOpen \o PctClose -> 3
      [] key = <<"b","c","c">> \o PctOpen \o PctClose -> 4
      [] IsBracketKey(FilesOpen, key) -> 5
      [] IsBracketKey(ContentOpen, key) -> 6
      [] key = F_from -> 7
      [] key = F_subject -> 8
      [] key = F_html -> 9
      [] key = F_text -> 10
      [] key = F_fromname -> 11
      [] key = F_replyto -> 12
      [] key = F_date -> 13
      [] key = F_headers -> 14
      [] key = F_xsmtpapi -> 15
      [] OTHER -> 0

\* The values of the pairs with a given key, in body order.
ValuesOf(pairs, key) ==
    LET hits == SelectSeq(pairs, LAMBDA p : p.key = key)
    IN  [i \in 1..Len(hits) |-> hits[i].value]

Count(pairs, key) == Len(ValuesOf(pairs, key))

InGroup(pairs, g) == SelectSeq(pairs, LAMBDA p : Group(p.key) = g)

\* make_post_body was called on `mail` and returned Ok(body).
Encoded == consumed /\ last.call = "make_post_body" /\ last.ok
Body    == last.value

HeadersFail == \E k \in DOMAIN mail.headers : ~Representable(mail.headers[k])

ScalarKey(f) ==
    CASE f = "from" -> F_from
      [] f = "subject" -> F_subject
      [] f = "html" -> F_html
      [] f = "text" -> F_text
      [] f = "from_name" -> F_fromname
      [] f = "reply_to" -> F_replyto
      [] f = "date" -> F_date
      [] f = "x_smtpapi" -> F_xsmtpapi

SeqFields == {"to", "to_names", "cc", "bcc"}

SeqKey(f) ==
    CASE f = "to" -> <<"t","o">> \o PctOpen \o PctClose
      [] f = "to_names" -> <<"t","o","n","a","m","e">> \o PctOpen \o PctClose
      [] f = "cc" -> <<"c","c">> \o PctOpen \o PctClose
      [] f = "bcc" -> <<"b","c","c">> \o PctOpen \o PctClose

-----------------------------------------------------------------------------
(* Claims                                                                   *)

\* C1: the pairs of the body come in the group order to[], toname[], cc[],
\* bcc[], files[..], content[..], from, subject, html, text, fromname,
\* replyto, date, headers, x-smtpapi: every pair belongs to a group, no pair
\* of an earlier group follows one of a later group, x-smtpapi is last.
C1_GroupOrder ==
    Encoded =>
        LET p == Pairs(Body)
            g == [i \in DOMAIN p |-> Group(p[i].key)]
        IN  /\ \A i \in DOMAIN g : g[i] >= 1
            /\ \A i \in 1..(Len(g) - 1) : g[i] <= g[i + 1]
            /\ g[Len(g)] = 15

C1_Witness ==
    /\ Encoded
    /\ Len(mail.bcc) > 0
    /\ DOMAIN mail.attachments # {}
    /\ DOMAIN mail.content # {}

\* C2: each of the nine scalar keys occurs exactly once in a produced body,
\* with the encoded field as value; for the empty Message there is no to[]
\* pair, the seven scalars and x-smtpapi are empty and headers is %7B%7D.
C2_ScalarsOnce ==
    Encoded =>
        LET p == Pairs(Body)
        IN  /\ \A f \in ScalarFields : ValuesOf(p, ScalarKey(f)) = <<E(mail[f])>>
            /\ Count(p, F_headers) = 1
            /\ mail = Mail_new =>
                 /\ Count(p, SeqKey("to")) = 0
                 /\ \A f \in ScalarFields : ValuesOf(p, ScalarKey(f)) = << << >> >>
                 /\ ValuesOf(p, F_headers) = << <<"%","7","B","%","7","D">> >>

C2_Witness == Encoded /\ mail = Mail_new

C2_WitnessSet == Encoded /\ mail.subject = V_amp /\ mail.from = << >>

\* C3 as stated: every field, also an empty sequence or mapping, produces a
\* form key, so the keys of the body do not depend on which fields are empty.
C3_EveryFieldKeyed ==
    Encoded =>
        LET p == Pairs(Body)
        IN  /\ \A f \in ScalarFields : Count(p, ScalarKey(f)) >= 1
            /\ Count(p, F_headers) >= 1
            /\ \A f \in SeqFields : Count(p, SeqKey(f)) >= 1
            /\ Len(InGroup(p, 5)) >= 1
            /\ Len(InGroup(p, 6)) >= 1

\* C3 amended: every scalar field and the header mapping produce a key also
\* when empty (an empty value; %7B%7D for headers), while a sequence or
\* mapping produces a pair exactly when it is not empty.
C3_ScalarsKeyedSequencesNot ==
    Encoded =>
        LET p == Pairs(Body)
        IN  /\ \A f \in ScalarFields :
                 mail[f] = << >> => ValuesOf(p, ScalarKey(f)) = << << >> >>
            /\ DOMAIN mail.headers = {} =>
                 ValuesOf(p, F_headers) = << <<"%","7","B","%","7","D">> >>
            /\ \A f \in SeqFields : (mail[f] = << >>) <=> (Count(p, SeqKey(f)) = 0)
            /\ (DOMAIN mail.attachments = {}) <=> (InGroup(p, 5) = << >>)
            /\ (DOMAIN mail.content = {}) <=> (InGroup(p, 6) = << >>)

C3_Witness ==
    /\ Encoded
    /\ mail.to = << >> /\ mail.cc # << >>
    /\ DOMAIN mail.attachments = {} /\ DOMAIN mail.content # {}
    /\ mail.html = << >>

\* C4: for to, to_names, cc and bcc the pairs with the matching key are as
\* many as the sequence is long, and carry its entries in appending order.
C4_SequencesInOrder ==
    Encoded =>
        LET p == Pairs(Body)
        IN  \A f \in SeqFields :
                ValuesOf(p, SeqKey(f)) = [i \in 1..Len(mail[f]) |-> E(mail[f][i])]

C4_Witness ==
    /\ Encoded
    /\ \E f \in SeqFields : Len(mail[f]) = 2 /\ mail[f][1] # mail[f][2]
    /\ \E f \in SeqFields : Len(mail[f]) = 1

C4_WitnessDuplicate == Encoded /\ Len(mail.to) = 2 /\ mail.to[1] = mail.to[2]

\* C5: every entry of attachments gives exactly one pair files[<filename>]
\* with its content, every entry of content exactly one pair content[<id>]
\* with its value, and there are no other files/content pairs.
C5_MappingEntries ==
    Encoded =>
        LET p == Pairs(Body)
        IN  /\ \A k \in DOMAIN mail.attachments :
                 ValuesOf(p, WireKey(F_files, k)) = <<E(mail.attachments[k])>>
            /\ \A k \in DOMAIN mail.content :
                 ValuesOf(p, WireKey(F_content, k)) = <<E(mail.content[k])>>
            /\ Len(InGroup(p, 5)) = Cardinality(DOMAIN mail.attachments)
            /\ Len(InGroup(p, 6)) = Cardinality(DOMAIN mail.content)

C5_Witness ==
    /\ Encoded
    /\ DOMAIN mail.attachments = MapKeys
    /\ mail.attachments[K_file] # mail.attachments[K_brk]
    /\ DOMAIN mail.content # {}

\* C6: make_post_body fails exactly when the header serialization fails;
\* then it returns the EncodingError alone, although the encoder already
\* holds the pairs before `headers`; otherwise it returns Ok with a body
\* that ends with the headers and x-smtpapi pairs.
C6_ErrorIffHeaders ==
    (consumed /\ last.call = "make_post_body") =>
        /\ last.ok <=> ~HeadersFail
        /\ ~last.ok =>
             /\ last.err = "EncodingError"
             /\ last.value = << >>
             /\ Group(Pairs(last.encoder)[Len(Pairs(last.encoder))].key) = 13
        /\ last.ok =>
             /\ last.err = "none"
             /\ last.encoder = << >>
             /\ LET p == Pairs(last.value)
                IN  /\ Len(p) >= 9
                    /\ Group(p[Len(p)].key) = 15
                    /\ Group(p[Len(p) - 1].key) = 14

C6_Witness ==
    /\ last.call = "make_post_body"
    /\ ~last.ok
    /\ Len(mail.to) > 0
    /\ Len(last.encoder) > 0

C6_WitnessOk == Encoded /\ DOMAIN mail.headers # {}

\* C7: make_form_key(form, key) is form, `[`, key, `]`; in the body every
\* constructed key carries its brackets as %5B and %5D, and the body holds
\* no literal `[` or `]`.
C7_BracketKeys ==
    /\ make_form_key(F_files, <<"t","e","s","t",".","j","p","g">>)
         = <<"f","i","l","e","s","[","t","e","s","t",".","j","p","g","]">>
    /\ \A f \in {F_files, F_content}, k \in MapKeys :
         /\ Len(make_form_key(f, k)) = Len(f) + Len(k) + 2
         /\ SubSeq(make_form_key(f, k), 1, Len(f)) = f
         /\ make_form_key(f, k)[Len(f) + 1] = "["
         /\ SubSeq(make_form_key(f, k), Len(f) + 2, Len(f) + Len(k) + 1) = k
         /\ make_form_key(f, k)[Len(f) + Len(k) + 2] = "]"
    /\ Encoded =>
         LET p == Pairs(Body)
         IN  /\ \A i \in DOMAIN Body : Body[i] \notin {"[", "]"}
             /\ \A k \in DOMAIN mail.attachments : Count(p, WireKey(F_files, k)) = 1
             /\ \A k \in DOMAIN mail.content : Count(p, WireKey(F_content, k)) = 1
             /\ mail.to # << >> =>
                  Body[3] = "%" /\ Body[4] = "5" /\ Body[5] = "B"
                  /\ Body[6] = "%" /\ Body[7] = "5" /\ Body[8] = "D"

C7_Witness ==
    /\ Encoded
    /\ K_brk \in DOMAIN mail.attachments
    /\ mail.to # << >>
    /\ \E i \in DOMAIN mail.to : mail.to[i] = V_brk

\* C8: two runs of make_post_body on logically identical Messages return
\* the same body.
C8_Idempotent ==
    [][(/\ last.call = "make_post_body" /\ last.ok
        /\ last'.call = "make_post_body" /\ last'.ok
        /\ mail' = mail)
       => last'.value = last.value]_vars

\* C9: one send issues at most one POST: exactly one when the encoding
\* succeeds, none when it fails; it returns the delivered response text when
\* the request and the read succeed, and the error otherwise.
C9_OneRequestNoRetry ==
    (consumed /\ last.call = "send") =>
        /\ Len(last.wire) <= 1
        /\ HeadersFail =>
             /\ last.wire = << >>
             /\ ~last.ok /\ last.err = "EncodingError" /\ last.value = << >>
        /\ ~HeadersFail =>
             /\ Len(last.wire) = 1
             /\ last.wire[1].method = "POST"
             /\ last.wire[1].url = API_URL
             /\ \E ao \in Orders(mail.attachments), co \in Orders(mail.content),
                   ho \in Orders(mail.headers) :
                   last.wire[1].body = make_post_body(mail, ao, co, ho).value
             /\ last.net = "ok" =>
                  last.ok /\ last.err = "none" /\ last.value = last.delivered
             /\ last.net # "ok" =>
                  ~last.ok /\ last.err = "TransportError" /\ last.value = << >>

C9_Witness == last.call = "send" /\ last.ok /\ last.value = R_ok

C9_WitnessTransport ==
    last.call = "send" /\ last.net = "send_fails" /\ Len(last.wire) = 1

C9_WitnessEncoding == last.call = "send" /\ last.err = "EncodingError"

\* A step in which SGClient::send ran.
SendStep == ~consumed /\ consumed' /\ last'.call = "send"

\* C10: after send has returned the same client, with its unchanged key,
\* can issue a further send, and every request carries
\* Authorization: Bearer <key> with the key given at construction.
C10_ClientReusable ==
    [][SendStep =>
        /\ client'.state = "live"
        /\ client'.api_key = client.api_key
        /\ \A i \in DOMAIN last'.wire :
             last'.wire[i].authorization = <<"Bearer", client.api_key>>]_vars

\* The part of C10 the code provides: the request of a send carries the key
\* the client was constructed with; the client itself is moved by the call.
C10_BearerKey ==
    [][SendStep =>
        /\ client.state = "live"
        /\ client'.state = "moved"
        /\ client'.api_key = client.api_key
        /\ \A i \in DOMAIN last'.wire :
             /\ last'.wire[i].authorization = <<"Bearer", client.api_key>>
             /\ last'.wire[i].content_type = "application/x-www-form-urlencoded"
             /\ last'.wire[i].user_agent = "sendgrid-rs"]_vars

====
